---- MODULE Spec2Model ----
(***************************************************************************)
(* A model of graph_algorithms.py: the extended-real values, the Graph    *)
(* class (constructor, new_edge, queries, +), dijkstra / floyd_warshall,   *)
(* and the Matrix class (+, det, minor).                                   *)
(*                                                                         *)
(* Python values are tagged records [k, n]: k is the Python type, n the    *)
(* payload.  Exceptions are values of the same shape whose k is the        *)
(* exception class.                                                        *)
(***************************************************************************)
EXTENDS Integers, Sequences, FiniteSets, TLC

VARIABLES G, R, pc, last, ncalls,       \* the graphs and the calls on them
          source, q, visited, distances,  \* the locals of a run of dijkstra
          opA, opB, result              \* the operands and outcome of a + or det

vars == <<G, R, pc, last, ncalls, source, q, visited, distances,
          opA, opB, result>>

dvars == <<source, q, visited, distances>>
avars == <<opA, opB, result>>

(***************************************************************************)
(* Bounds                                                                  *)
(***************************************************************************)
NumVerts == 2
MaxDescs == 1
MaxCalls == 2
MaxUnionEdges == 2
DijkstraVerts == 4
MaxEdges == 4
MaxDim == 3
MaxAddDim == 2
MaxNum == 2

Universe == 1..NumVerts

(***************************************************************************)
(* Python values                                                           *)
(***************************************************************************)
None == [k |-> "None", n |-> 0]
Num(i) == [k |-> "num", n |-> i]
Str(i) == [k |-> "str", n |-> i]
NegInf == [k |-> "values", n |-> 1]
Inf == [k |-> "values", n |-> 2]
ValueError == [k |-> "ValueError", n |-> 0]
TypeError == [k |-> "TypeError", n |-> 0]
IndexError == [k |-> "IndexError", n |-> 0]
NoError == [k |-> "ok", n |-> 0]

Bool(b) == [k |-> "bool", n |-> IF b THEN 1 ELSE 0]
Truthy(x) == x.k = "bool" /\ x.n = 1

IsNum(x) == x.k = "num"
IsValues(x) == x.k = "values"
IsError(x) == x.k \in {"ValueError", "TypeError", "IndexError"}

(***************************************************************************)
(* class values, and the operators +, <, > and min on numbers and values   *)
(***************************************************************************)
\* values.__gt__
ValuesGt(self, other) ==
    IF IsValues(other) THEN Bool(self.n > other.n)
    ELSE IF IsNum(other) THEN Bool(self = Inf)
    ELSE None

\* values.__lt__
ValuesLt(self, other) ==
    IF IsValues(other) THEN Bool(self.n < other.n)
    ELSE IF IsNum(other) THEN Bool(self = NegInf)
    ELSE None

\* values.__add__: the last statement is the bare expression NotImplemented,
\* so the method falls off its end and returns None
ValuesAdd(self, other) ==
    IF IsNum(other) THEN self
    ELSE IF IsValues(other) /\ self.n = other.n THEN self
    ELSE None

\* values.__radd__
ValuesRAdd(self, other) == ValuesAdd(self, other)

\* a + b: the left operand's __add__, then the right operand's __radd__
PyAdd(a, b) ==
    CASE IsNum(a) /\ IsNum(b) -> Num(a.n + b.n)
      [] IsValues(a) -> ValuesAdd(a, b)
      [] IsValues(b) -> ValuesRAdd(b, a)
      [] OTHER -> TypeError

\* a > b: the left operand's __gt__, then the right operand's __lt__
PyGt(a, b) ==
    CASE IsNum(a) /\ IsNum(b) -> Bool(a.n > b.n)
      [] IsValues(a) -> ValuesGt(a, b)
      [] IsValues(b) -> ValuesLt(b, a)
      [] OTHER -> TypeError

\* a < b: the left operand's __lt__, then the right operand's __gt__
PyLt(a, b) ==
    CASE IsNum(a) /\ IsNum(b) -> Bool(a.n < b.n)
      [] IsValues(a) -> ValuesLt(a, b)
      [] IsValues(b) -> ValuesGt(b, a)
      [] OTHER -> TypeError

\* min(a, b): b when b < a, else a
PyMin(a, b) == IF Truthy(PyLt(b, a)) THEN b ELSE a

\* the (label, weight) pairs that callers of new_edge pass: the defaults,
\* and a string with a number
NewEdgeArgs == {<<None, Num(0)>>, <<Str(1), Num(1)>>}

(***************************************************************************)
(* Graph._Edge                                                             *)
(***************************************************************************)
\* _Edge.__init__(u, v, weight, label), arguments by position
EdgeInit(u, v, weight, label) ==
    [u |-> u, v |-> v, weight |-> weight, label |-> label]

\* _Edge.reverse: passes (label, weight) in the positions (weight, label)
Reverse(e) == EdgeInit(e.v, e.u, e.label, e.weight)

\* _Edge.__eq__ / __hash__: endpoints only
EdgeEq(e, f) == f.u = e.u /\ f.v = e.v

\* set.add on a set of _Edge: an equal element already present is kept
SetAdd(E, e) == IF \E f \in E : EdgeEq(e, f) THEN E ELSE E \cup {e}

(***************************************************************************)
(* Graph                                                                   *)
(***************************************************************************)
\* a graph object: vnone says that _vertices is None (vertices is then unused);
\* alive says that the object exists
NoGraph ==
    [vertices |-> {}, vnone |-> FALSE, edges |-> {}, directed |-> FALSE,
     alive |-> FALSE]

\* Graph.__init__ up to the call of _populate_edges
GraphInit(vertices, directed) ==
    [vertices |-> vertices, vnone |-> FALSE, edges |-> {},
     directed |-> directed, alive |-> TRUE]

\* Graph.__init__ reached with vertices = None (and directed left to its default)
GraphInitNone ==
    [vertices |-> {}, vnone |-> TRUE, edges |-> {}, directed |-> FALSE,
     alive |-> TRUE]

\* edge descriptions handed to the constructor: tuples of length 2, 3, 4
\* and _Edge objects
Desc(kind, u, v, weight, label) ==
    [kind |-> kind, u |-> u, v |-> v, weight |-> weight, label |-> label]

Descs ==
    {Desc(d[3], d[1], d[2], IF d[3] = "tuple2" THEN None ELSE Num(1),
          IF d[3] \in {"tuple2", "tuple3"} THEN None ELSE Str(1)) :
        d \in Universe \X Universe \X {"tuple2", "tuple3", "tuple4", "Edge"}}

\* the test of _populate_edges on one description
BadDesc(g, d) == ~(d.u \in g.vertices) \/ ~(d.v \in g.vertices)

\* one iteration of the loop of _populate_edges, for a description that
\* passes the membership test
PopulateOne(g, d) ==
    LET e == CASE d.kind = "tuple2" -> EdgeInit(d.u, d.v, Num(0), None)
               [] d.kind = "tuple3" -> EdgeInit(d.u, d.v, d.weight, None)
               [] d.kind = "tuple4" -> EdgeInit(d.u, d.v, d.weight, d.label)
               [] d.kind = "Edge" -> EdgeInit(d.u, d.v, d.weight, d.label)
        m == CASE d.kind = "tuple2" -> EdgeInit(d.v, d.u, Num(0), None)
               [] d.kind = "tuple3" -> EdgeInit(d.v, d.u, d.weight, None)
               [] d.kind = "tuple4" -> EdgeInit(d.v, d.u, d.weight, d.label)
               [] d.kind = "Edge" -> Reverse(e)
        E1 == SetAdd(g.edges, e)
    IN  [g EXCEPT !.edges = IF g.directed THEN E1 ELSE SetAdd(E1, m)]

\* the test of new_edge
NewEdgeRaises(g, u, v) == ~(u \in g.vertices) /\ (v \in g.vertices)

\* new_edge that forgets the mirror edge of an undirected graph
NewEdgeInsertOneWay(g, u, v, label, weight) ==
    [g EXCEPT !.edges = SetAdd(g.edges, EdgeInit(u, v, label, weight))]

\* new_edge past its test: passes (label, weight) to _Edge by position
NewEdgeInsert(g, u, v, label, weight) ==
    LET E1 == SetAdd(g.edges, EdgeInit(u, v, label, weight))
    IN  [g EXCEPT !.edges = IF g.directed THEN E1
                            ELSE SetAdd(E1, EdgeInit(v, u, label, weight))]

\* _are_neighbors
AreNeighbors(g, v1, v2) ==
    \E e \in g.edges : EdgeEq(EdgeInit(v1, v2, Num(0), None), e)

\* _get_edge, for a pair that has an edge
GetEdge(g, v1, v2) == CHOOSE e \in g.edges : e.u = v1 /\ e.v = v2

\* _edge_weight
EdgeWeight(g, v1, v2) ==
    IF ~AreNeighbors(g, v1, v2) THEN Inf ELSE GetEdge(g, v1, v2).weight

\* neighbors: iterating _vertices raises TypeError when it is None
NeighborsRaises(g) == g.vnone

Neighbors(g, vertex) == {v \in g.vertices : AreNeighbors(g, vertex, v)}

\* list(self._vertices) followed by sort()
RECURSIVE SortedSeq(_)
SortedSeq(S) ==
    IF S = {} THEN <<>>
    ELSE LET m == CHOOSE x \in S : \A y \in S : x <= y
         IN  <<m>> \o SortedSeq(S \ {m})

\* adjacency: row r, column c holds 1 when _are_neighbors(vertices[c], vertices[r])
Adjacency(g) ==
    LET vs == SortedSeq(g.vertices)
    IN  [r \in 1..Len(vs) |->
            [c \in 1..Len(vs) |->
                IF AreNeighbors(g, vs[c], vs[r]) THEN Num(1) ELSE Num(0)]]

\* the iteration orders of a set
Orders(S) ==
    {s \in [1..Cardinality(S) -> S] :
        \A i, j \in 1..Cardinality(S) : i /= j => s[i] /= s[j]}

\* _populate_edges over the descriptions in the order seq; NoGraph when an
\* iteration raises ValueError
RECURSIVE PopulateEdges(_, _)
PopulateEdges(g, seq) ==
    IF seq = <<>> THEN g
    ELSE IF BadDesc(g, Head(seq)) THEN NoGraph
    ELSE PopulateEdges(PopulateOne(g, Head(seq)), Tail(seq))

\* set.union on two sets of _Edge: the elements of E, and those of F equal
\* to none of them
EdgeUnion(E, F) == E \cup {f \in F : ~\E e \in E : EdgeEq(f, e)}

\* an _Edge object as an element of the constructor's edges
AsDesc(e) == Desc("Edge", e.u, e.v, e.weight, e.label)

\* the right operands of +: graphs built by the constructor
OtherGraphs ==
    {GraphInit(Universe, d) : d \in BOOLEAN}
    \cup {PopulateEdges(GraphInit(Universe, d),
                        <<Desc("tuple4", 1, NumVerts, Num(1), Str(1))>>) :
             d \in BOOLEAN}

(***************************************************************************)
(* The calls                                                               *)
(***************************************************************************)
Call(op, u, v, weight, label, raised) ==
    [op |-> op, u |-> u, v |-> v, weight |-> weight, label |-> label,
     raised |-> raised]

\* no + or det is under way
NoOperands == opA = None /\ opB = None /\ result = None

\* no run of dijkstra is under way
NoRun == source = 0 /\ q = <<>> /\ visited = {} /\ distances = <<>>

Init ==
    /\ G = NoGraph
    /\ R = NoGraph
    /\ pc = "new"
    /\ last = Call("none", 0, 0, None, None, NoError)
    /\ ncalls = 0
    /\ NoRun
    /\ NoOperands

\* Graph(vertices, edges, directed): entry, lines 142-144
Construct ==
    /\ pc = "new"
    /\ \E n \in 0..NumVerts, d \in BOOLEAN :
          G' = GraphInit(1..n, d)
    /\ pc' = "populating"
    /\ last' = Call("Graph", 0, 0, None, None, NoError)
    /\ ncalls' = 0
    /\ R' = R
    /\ UNCHANGED <<dvars, avars>>

\* one iteration of the loop of _populate_edges over the constructor's edges
Populate ==
    /\ pc = "populating"
    /\ ncalls < MaxDescs
    /\ \E d \in Descs :
          IF BadDesc(G, d)
          THEN /\ G' = NoGraph
               /\ pc' = "failed"
               /\ last' = Call("populate", d.u, d.v, d.weight, d.label, ValueError)
               /\ ncalls' = 0
          ELSE /\ G' = PopulateOne(G, d)
               /\ pc' = "populating"
               /\ last' = Call("populate", d.u, d.v, d.weight, d.label, NoError)
               /\ ncalls' = ncalls + 1
    /\ R' = R
    /\ UNCHANGED <<dvars, avars>>

\* the loop of _populate_edges ends and the constructor returns
Constructed ==
    /\ pc = "populating"
    /\ pc' = "live"
    /\ last' = Call("Graph", 0, 0, None, None, NoError)
    /\ ncalls' = 0
    /\ UNCHANGED <<G, R>>
    /\ UNCHANGED <<dvars, avars>>

\* G.new_edge(u, v, label, weight)
NewEdge ==
    /\ pc = "live"
    /\ ncalls < MaxCalls
    /\ \E u \in Universe, v \in Universe, a \in NewEdgeArgs :
          LET label == a[1]
              weight == a[2]
          IN  IF NewEdgeRaises(G, u, v)
              THEN /\ G' = G
                   /\ last' = Call("new_edge", u, v, weight, label, ValueError)
              ELSE /\ G' = NewEdgeInsert(G, u, v, label, weight)
                   /\ last' = Call("new_edge", u, v, weight, label, NoError)
    /\ ncalls' = ncalls + 1
    /\ UNCHANGED <<R, pc>>
    /\ UNCHANGED <<dvars, avars>>

\* G + x for x that is not a graph, line 292: set.add returns None, which
\* becomes the vertices of the new graph, and _populate_edges then tests
\* membership in None for the first edge it meets
AddVertex ==
    /\ pc = "live"
    /\ ncalls < MaxCalls
    /\ \E x \in Universe :
          /\ G' = [G EXCEPT !.vertices = G.vertices \cup {x}]
          /\ IF G.edges = {}
             THEN /\ R' = GraphInitNone
                  /\ last' = Call("add_vertex", x, 0, None, None, NoError)
             ELSE /\ R' = NoGraph
                  /\ last' = Call("add_vertex", x, 0, None, None, TypeError)
    /\ pc' = "summed"
    /\ ncalls' = ncalls + 1
    /\ UNCHANGED <<dvars, avars>>

\* G + H for a graph H, line 291
Union ==
    /\ pc = "live"
    /\ ncalls < MaxCalls
    /\ \E H \in OtherGraphs :
          LET V == G.vertices \cup H.vertices
              E == EdgeUnion(G.edges, H.edges)
              g0 == GraphInit(V, G.directed \/ H.directed)
          IN  /\ Cardinality(E) <= MaxUnionEdges
              /\ \E ord \in Orders({AsDesc(e) : e \in E}) :
                    /\ R' = PopulateEdges(g0, ord)
                    /\ last' = Call("union", 0, 0, None, None,
                                    IF R'.alive THEN NoError ELSE ValueError)
    /\ pc' = "summed"
    /\ ncalls' = ncalls + 1
    /\ G' = G
    /\ UNCHANGED <<dvars, avars>>

Next == Construct \/ Populate \/ Constructed \/ NewEdge \/ AddVertex \/ Union

Spec == Init /\ [][Next]_vars

(***************************************************************************)
(* dijkstra and floyd_warshall                                             *)
(***************************************************************************)
\* the for loop of dijkstra without its q.put: improved neighbors are never
\* queued
RECURSIVE RelaxNoPut(_, _, _, _, _)
RelaxNoPut(g, current, ord, d, qq) ==
    IF ord = <<>> THEN [d |-> d, q |-> qq]
    ELSE LET neighbor == Head(ord)
             tentative_dist == PyAdd(d[current], EdgeWeight(g, current, neighbor))
         IN  IF Truthy(PyGt(d[neighbor], tentative_dist))
             THEN RelaxNoPut(g, current, Tail(ord),
                             [d EXCEPT ![neighbor] = tentative_dist], qq)
             ELSE RelaxNoPut(g, current, Tail(ord), d, qq)

\* the for loop of dijkstra over the neighbors of current, taken in the
\* order ord
RECURSIVE Relax(_, _, _, _, _)
Relax(g, current, ord, d, qq) ==
    IF ord = <<>> THEN [d |-> d, q |-> qq]
    ELSE LET neighbor == Head(ord)
             tentative_dist == PyAdd(d[current], EdgeWeight(g, current, neighbor))
         IN  IF Truthy(PyGt(d[neighbor], tentative_dist))
             THEN Relax(g, current, Tail(ord),
                        [d EXCEPT ![neighbor] = tentative_dist],
                        Append(qq, neighbor))
             ELSE Relax(g, current, Tail(ord), d, qq)

\* the innermost loop of floyd_warshall, from column j on; D is updated in
\* place
RECURSIVE FWColumns(_, _, _, _, _)
FWColumns(D, k, i, j, n) ==
    IF j > n THEN D
    ELSE LET D1 == [D EXCEPT ![i][j] = PyMin(D[i][j], PyAdd(D[i][k], D[k][j]))]
         IN  IF D1[i][j] = D[i][j] THEN FWColumns(D, k, i, j + 1, n)
             ELSE FWColumns(D1, k, i, j + 1, n)

\* the middle loop of floyd_warshall, from row i on
RECURSIVE FWRows(_, _, _, _)
FWRows(D, k, i, n) ==
    IF i > n THEN D
    ELSE LET D1 == FWColumns(D, k, i, 1, n)
         IN  IF D1 = D THEN FWRows(D, k, i + 1, n) ELSE FWRows(D1, k, i + 1, n)

\* the outer loop of floyd_warshall, from k on
RECURSIVE FWLoop(_, _, _)
FWLoop(D, k, n) ==
    IF k > n THEN D
    ELSE LET D1 == FWRows(D, k, 1, n)
         IN  IF D1 = D THEN FWLoop(D, k + 1, n) ELSE FWLoop(D1, k + 1, n)

\* floyd_warshall: rows and columns are the positions (from 1) of the
\* vertices in sorted order
FloydWarshall(g) ==
    LET vs == SortedSeq(g.vertices)
        n == Len(vs)
        D0 == [i \in 1..n |->
                 [j \in 1..n |->
                    IF i = j THEN Num(0)
                    ELSE IF AreNeighbors(g, vs[i], vs[j])
                         THEN EdgeWeight(g, vs[i], vs[j])
                         ELSE Inf]]
    IN  FWLoop(D0, 1, n)

\* the position of vertex v in the sorted vertices
IndexOf(g, v) ==
    LET vs == SortedSeq(g.vertices)
    IN  CHOOSE i \in 1..Len(vs) : vs[i] = v

\* the graphs dijkstra is run on: built by the constructor, directed or
\* undirected, from at most MaxEdges triples (u, v, weight) with u < v over
\* the vertices 1..DijkstraVerts, no two of them for the same edge
DVerts == 1..DijkstraVerts
DWeights == {Num(0), Num(3)}
DDescs ==
    {Desc("tuple3", d[1], d[2], d[3], None) :
        d \in {x \in DVerts \X DVerts \X DWeights : x[1] < x[2]}}

RECURSIVE SubsetsUpTo(_, _)
SubsetsUpTo(S, k) ==
    IF k = 0 THEN {{}}
    ELSE LET P == SubsetsUpTo(S, k - 1)
         IN  P \cup {p \cup {x} : p \in P, x \in S}

NoCollision(ds, directed) ==
    \A d1, d2 \in ds :
        d1 /= d2 =>
            /\ ~(d1.u = d2.u /\ d1.v = d2.v)
            /\ directed \/ ~(d1.u = d2.v /\ d1.v = d2.u)

RECURSIVE SetToSeq(_)
SetToSeq(S) ==
    IF S = {} THEN <<>>
    ELSE LET x == CHOOSE y \in S : TRUE
         IN  <<x>> \o SetToSeq(S \ {x})

\* the sources dijkstra is called with; the last one is not a vertex
DSources == {1, 2, DijkstraVerts + 1}

DijkstraGraphs ==
    {PopulateEdges(GraphInit(DVerts, c[2]), SetToSeq(c[1])) :
        c \in {x \in SubsetsUpTo(DDescs, MaxEdges) \X BOOLEAN :
                  NoCollision(x[1], x[2])}}

InitDijkstra ==
    /\ G \in DijkstraGraphs
    /\ R = NoGraph
    /\ pc = "live"
    /\ last = Call("Graph", 0, 0, None, None, NoError)
    /\ ncalls = 0
    /\ NoRun
    /\ NoOperands

\* G.dijkstra(vertex), lines 183-191
DijkstraCall ==
    /\ pc = "live"
    /\ \E vertex \in DSources :
          /\ source' = vertex
          /\ IF G.vnone
             THEN /\ pc' = "dijkstra_raised"
                  /\ last' = Call("dijkstra", vertex, 0, None, None, TypeError)
                  /\ UNCHANGED <<q, visited, distances>>
             ELSE IF ~(vertex \in G.vertices)
             THEN /\ pc' = "dijkstra_raised"
                  /\ last' = Call("dijkstra", vertex, 0, None, None, ValueError)
                  /\ UNCHANGED <<q, visited, distances>>
             ELSE /\ pc' = "dijkstra_loop"
                  /\ last' = Call("dijkstra", vertex, 0, None, None, NoError)
                  /\ visited' = {}
                  /\ distances' = [v \in G.vertices |->
                                      IF v = vertex THEN Num(0) ELSE Inf]
                  /\ q' = <<vertex>>
    /\ UNCHANGED <<G, R, ncalls>>
    /\ UNCHANGED avars

\* one iteration of the while loop of dijkstra, lines 193-201
DijkstraIter ==
    /\ pc = "dijkstra_loop"
    /\ q /= <<>>
    /\ LET current == Head(q)
       IN  IF current \in visited
           THEN /\ q' = Tail(q)
                /\ UNCHANGED <<visited, distances>>
           ELSE /\ visited' = visited \cup {current}
                /\ \E ord \in Orders(Neighbors(G, current)) :
                      LET r == Relax(G, current, ord, distances, Tail(q))
                      IN  distances' = r.d /\ q' = r.q
    /\ UNCHANGED <<G, R, pc, last, ncalls, source>>
    /\ UNCHANGED avars

\* the queue is empty: dijkstra returns distances, line 202
DijkstraReturn ==
    /\ pc = "dijkstra_loop"
    /\ q = <<>>
    /\ pc' = "dijkstra_done"
    /\ UNCHANGED <<G, R, last, ncalls, source, q, visited, distances>>
    /\ UNCHANGED avars

NextDijkstra == DijkstraCall \/ DijkstraIter \/ DijkstraReturn

SpecDijkstra == InitDijkstra /\ [][NextDijkstra]_vars

\* dijkstra is sequential code: a started call keeps executing its loop and
\* then its return
SpecDijkstraRuns ==
    SpecDijkstra /\ WF_vars(DijkstraIter) /\ WF_vars(DijkstraReturn)

\* C1: for a graph with finite non-negative weights and vertices s and t,
\* dijkstra(s)[t] is the entry of floyd_warshall() in the row of s and the
\* column of t, whatever the order in which neighbors are iterated.
C1_DijkstraEqualsFloydWarshall ==
    pc = "dijkstra_done" =>
        LET D == FloydWarshall(G)
        IN  \A t \in G.vertices :
                distances[t] = D[IndexOf(G, source)][IndexOf(G, t)]

\* the total weights of the paths of g from u to t that enter no vertex of
\* seen, a path being a chain of stored edges between vertices of g that
\* repeats no vertex
RECURSIVE PathWeights(_, _, _, _)
PathWeights(g, u, t, seen) ==
    IF u = t THEN {0}
    ELSE UNION {{EdgeWeight(g, u, v).n + w :
                    w \in PathWeights(g, v, t, seen \cup {v})} :
                 v \in Neighbors(g, u) \ seen}

\* the weights of the paths from s to t; empty when no path leads from s to t
PathsFromTo(g, s, t) == PathWeights(g, s, t, {s})

\* every edge weight of g is a finite non-negative number
NonNegativeWeights(g) == \A e \in g.edges : IsNum(e.weight) /\ e.weight.n >= 0

\* a run of dijkstra has returned its distances
DijkstraDone == pc = "dijkstra_done"

\* what dijkstra(source) returned for t: infinity exactly when no path leads
\* from source to t, else the weight of a path from source to t, which is
\* at least the shortest distance
ReturnedForIsPathWeight(t) ==
    LET ws == PathsFromTo(G, source, t)
    IN  /\ (distances[t] = Inf) <=> (ws = {})
        /\ ws /= {} =>
               /\ IsNum(distances[t])
               /\ distances[t].n \in ws
               /\ \E w \in ws : (\A x \in ws : w <= x) /\ distances[t].n >= w

\* a step that is one iteration of the while loop of dijkstra
LoopStep == pc = "dijkstra_loop" /\ pc' = "dijkstra_loop" /\ q /= <<>>

\* the measure of the while loop: the number of vertices not yet marked
\* and the length of the queue, compared in that order
Unvisited == Cardinality(G.vertices \ visited)

\* C11: on a graph with finite non-negative weights and a source in it,
\* dijkstra terminates (every iteration of its loop either marks a vertex
\* not marked before, which lowers the number of unmarked vertices, or
\* leaves marks and distances alone and shortens the queue; the queue holds
\* only vertices, so every lookup of an iteration succeeds), marks each
\* vertex visited at most once (a marked vertex is never expanded again
\* and keeps its mark), and returns for every vertex t infinity exactly
\* when no path leads from the source to t, and otherwise the total weight
\* of an actual path from the source to t, hence never less than the
\* shortest distance.
C11_DijkstraReturnsPathWeights ==
    /\ [](pc \in {"dijkstra_loop", "dijkstra_done"} =>
            /\ NonNegativeWeights(G) /\ source \in G.vertices
            /\ visited \subseteq G.vertices
            /\ \A i \in 1..Len(q) : q[i] \in G.vertices)
    /\ [](DijkstraDone => \A t \in G.vertices : ReturnedForIsPathWeight(t))
    /\ [][LoopStep =>
            IF Head(q) \in visited
            THEN /\ visited' = visited /\ distances' = distances
                 /\ Len(q') < Len(q)
            ELSE /\ visited' = visited \cup {Head(q)}
                 /\ Unvisited' < Unvisited]_vars
    /\ [][pc = "dijkstra_loop" =>
            visited \subseteq visited' /\ pc' \in {"dijkstra_loop", "dijkstra_done"}]_vars

\* every started run of dijkstra returns, given that the loop keeps running
DijkstraTerminates == pc = "dijkstra_loop" ~> DijkstraDone

\* a finished run on an undirected graph (so one with cycles) in which every
\* vertex was reached and marked, one got the weight of a path that is not a
\* shortest one, and another is at distance 0 from the source over edges of
\* weight 0
C11_Witness ==
    /\ DijkstraDone /\ ~G.directed /\ visited = G.vertices
    /\ \E t \in G.vertices :
          \E w \in PathsFromTo(G, source, t) :
              IsNum(distances[t]) /\ w < distances[t].n
    /\ \E t \in G.vertices : t /= source /\ distances[t] = Num(0)

(***************************************************************************)
(* Matrix: a sequence of rows, each a sequence of elements; rows and       *)
(* columns are numbered from 1 here and from 0 in the source               *)
(***************************************************************************)
\* a * b on numbers; class values defines no multiplication
PyMul(a, b) ==
    CASE IsNum(a) /\ IsNum(b) -> Num(a.n * b.n)
      [] OTHER -> TypeError

\* (-1)**i
MinusOneToThe(i) == IF i % 2 = 0 THEN Num(1) ELSE Num(-1)

\* Matrix.height
Height(M) == Len(M)

\* Matrix.width, for a matrix that has a row
Width(M) == Len(M[1])

\* Matrix.width raises IndexError when the matrix has no row
WidthRaises(M) == Len(M) = 0

\* other.width, without the call: the bound method itself
WidthMethod(M) == [k |-> "method", n |-> 0]

\* a != b on a number and any object
PyNe(a, b) == a /= b

\* the test of Matrix.__add__, line 340
MatAddRaises(A, B) ==
    \/ PyNe(Num(Width(A)), WidthMethod(B))
    \/ PyNe(Num(Height(A)), Num(Height(B)))

\* the matrix built by Matrix.__add__, line 342
MatAddSum(A, B) ==
    [i \in 1..Height(A) |-> [j \in 1..Width(A) |-> PyAdd(A[i][j], B[i][j])]]

\* the outcome of a call: what it raised, or the value it returned
Raised(e) == [raised |-> e, value |-> None]
Returned(x) == [raised |-> NoError, value |-> x]
Outcome(x) == IF IsError(x) THEN Raised(x) ELSE Returned(x)

\* Matrix.__add__ for a Matrix other
MatAdd(A, B) ==
    IF MatAddRaises(A, B) THEN Raised(ValueError) ELSE Returned(MatAddSum(A, B))

\* the test of Matrix.minor, line 434; p and q count from 0
MinorRaises(M, p, qq) ==
    ~(0 <= p /\ p <= Width(M) - 1) \/ ~(0 <= qq /\ qq <= Height(M) - 1)

\* a sequence without its element at position k
Without(s, k) == [i \in 1..(Len(s) - 1) |-> IF i < k THEN s[i] ELSE s[i + 1]]

\* Matrix.minor(p, qq) past its test: column p and row qq removed
Minor(M, p, qq) ==
    LET rows == Without(M, qq + 1)
    IN  [j \in 1..Len(rows) |-> Without(rows[j], p + 1)]

\* Matrix.det; DetSum is the sum(...) of line 428 from term i on
RECURSIVE Det(_), DetSum(_, _, _)
Det(M) ==
    IF WidthRaises(M) THEN IndexError
    ELSE IF ~(Height(M) = Width(M)) THEN ValueError
    ELSE IF Height(M) = 2
         THEN PyAdd(PyMul(M[1][1], M[2][2]),
                    PyMul(PyMul(Num(-1), M[1][2]), M[2][1]))
    ELSE DetSum(M, 0, Num(0))

DetSum(M, i, acc) ==
    IF i >= Width(M) THEN acc
    ELSE LET d == Det(Minor(M, i, 0))
         IN  IF IsError(d) THEN d
             ELSE DetSum(M, i + 1,
                         PyAdd(acc, PyMul(PyMul(MinusOneToThe(i), M[1][i + 1]), d)))

\* the operands
Scalars == {NegInf, Inf} \cup {Num(i) : i \in (0 - MaxNum)..MaxNum}
Mats(h, w, entries) == [1..h -> [1..w -> entries]]
AddOperands ==
    UNION {Mats(d[1], d[2], {Num(0), Num(1)}) :
              d \in (1..MaxAddDim) \X (1..MaxAddDim)}
DetOperands == UNION {Mats(n, n, {Num(-1), Num(0), Num(2)}) : n \in 1..MaxDim}

InitAlgebra ==
    /\ G = NoGraph
    /\ R = NoGraph
    /\ last = Call("none", 0, 0, None, None, NoError)
    /\ ncalls = 0
    /\ NoRun
    /\ result = None
    /\ \/ pc = "scalars" /\ opA \in Scalars /\ opB \in Scalars
       \/ pc = "matrices" /\ opA \in AddOperands /\ opB \in AddOperands
       \/ pc = "square" /\ opA \in DetOperands /\ opB = None

\* opA + opB on numbers and values
Plus ==
    /\ pc = "scalars"
    /\ result' = Outcome(PyAdd(opA, opB))
    /\ pc' = "plus_done"
    /\ UNCHANGED <<G, R, last, ncalls, opA, opB>>
    /\ UNCHANGED dvars

\* opA + opB on matrices
MatrixPlus ==
    /\ pc = "matrices"
    /\ result' = MatAdd(opA, opB)
    /\ pc' = "matadd_done"
    /\ UNCHANGED <<G, R, last, ncalls, opA, opB>>
    /\ UNCHANGED dvars

\* opA.det()
MatrixDet ==
    /\ pc = "square"
    /\ result' = Outcome(Det(opA))
    /\ pc' = "det_done"
    /\ UNCHANGED <<G, R, last, ncalls, opA, opB>>
    /\ UNCHANGED dvars

NextAlgebra == Plus \/ MatrixPlus \/ MatrixDet

SpecAlgebra == InitAlgebra /\ [][NextAlgebra]_vars

\* C6: adding positive and negative infinity, in either order, fails with
\* an error and returns no value.
C6_InfPlusNegInfFails ==
    (pc = "plus_done" /\ {opA, opB} = {Inf, NegInf}) => IsError(result.raised)

SameShape(A, B) == Height(A) = Height(B) /\ Width(A) = Width(B)

\* C7: A + B on matrices fails with a dimension error exactly when A and B
\* differ in height or in width, and otherwise returns the matrix of the
\* sums A[i][j] + B[i][j].
C7_MatrixAddElementwise ==
    pc = "matadd_done" =>
        /\ IsError(result.raised) <=> ~SameShape(opA, opB)
        /\ SameShape(opA, opB) =>
              /\ Height(result.value) = Height(opA)
              /\ \A i \in 1..Height(opA) : \A j \in 1..Width(opA) :
                    result.value[i][j] = Num(opA[i][j].n + opB[i][j].n)

\* the number of pairs of positions that the permutation s puts out of order
Inversions(s) ==
    Cardinality({p \in (DOMAIN s) \X (DOMAIN s) : p[1] < p[2] /\ s[p[1]] > s[p[2]]})

RECURSIVE ProductAlong(_, _, _)
ProductAlong(M, s, i) ==
    IF i > Len(M) THEN 1 ELSE M[i][s[i]].n * ProductAlong(M, s, i + 1)

RECURSIVE SumOver(_, _)
SumOver(M, P) ==
    IF P = {} THEN 0
    ELSE LET s == CHOOSE x \in P : TRUE
         IN  (IF Inversions(s) % 2 = 0 THEN 1 ELSE -1) * ProductAlong(M, s, 1)
             + SumOver(M, P \ {s})

\* the determinant of a square matrix of integers, by the sum over the
\* permutations of its columns
Determinant(M) == SumOver(M, Orders(1..Len(M)))

\* C8: for every square matrix of integers of size n >= 1, det() ends in a
\* value, and that value is the determinant of the matrix.
C8_DetIsDeterminant ==
    pc = "det_done" =>
        /\ result.raised = NoError
        /\ result.value = Num(Determinant(opA))

(***************************************************************************)
(* Properties of the graph structure                                       *)
(***************************************************************************)
\* the step is a call of new_edge(last'.u, last'.v, last'.label, last'.weight)
NewEdgeStep == pc = "live" /\ last'.op = "new_edge" /\ ncalls' = ncalls + 1

\* the step is one iteration of the constructor's loop, on the description
\* with endpoints last'.u and last'.v
PopulateStep == pc = "populating" /\ last'.op = "populate"

\* the step is G + x for the vertex x = last'.u
AddVertexStep == pc = "live" /\ pc' = "summed" /\ last'.op = "add_vertex"

EndpointsInVertexSet(g) ==
    \A e \in g.edges : e.u \in g.vertices /\ e.v \in g.vertices

\* C2: in every graph reached by the constructor and new_edge calls both
\* endpoints of every stored edge are vertices; the constructor raises on a
\* description with an endpoint outside the vertex set; new_edge(u, v) raises
\* and inserts nothing when u or v is outside the vertex set.
C2_EndpointsAreVertices ==
    /\ [](pc = "live" => EndpointsInVertexSet(G))
    /\ [][/\ (PopulateStep /\ ~(last'.u \in G.vertices /\ last'.v \in G.vertices))
                => (last'.raised = ValueError /\ pc' = "failed")
          /\ (NewEdgeStep /\ ~(last'.u \in G.vertices /\ last'.v \in G.vertices))
                => (last'.raised = ValueError /\ G' = G)]_vars

\* C3: new_edge(u, v, label, weight) on a graph that holds u and v and no
\* edge between them: afterwards _edge_weight(u, v) is weight (and so is
\* _edge_weight(v, u) when undirected) and the stored label is label.
C3_NewEdgeStoresWeightAndLabel ==
    [][(/\ NewEdgeStep
        /\ last'.u \in G.vertices /\ last'.v \in G.vertices
        /\ ~AreNeighbors(G, last'.u, last'.v)
        /\ ~AreNeighbors(G, last'.v, last'.u))
       => /\ AreNeighbors(G', last'.u, last'.v)
          /\ EdgeWeight(G', last'.u, last'.v) = last'.weight
          /\ GetEdge(G', last'.u, last'.v).label = last'.label
          /\ ~G.directed => EdgeWeight(G', last'.v, last'.u) = last'.weight]_vars

Mirrored(g) ==
    \A e \in g.edges :
        \E f \in g.edges :
            f.u = e.v /\ f.v = e.u /\ f.weight = e.weight /\ f.label = e.label

\* C4: in every undirected graph made by the constructor, new_edge and the
\* union of two undirected graphs, an edge (u, v) with weight w and label l
\* comes with an edge (v, u) with the same weight w and the same label l.
C4_UndirectedEdgesMirrored ==
    /\ (pc = "live" /\ ~G.directed) => Mirrored(G)
    /\ (last.op = "union" /\ R.alive /\ ~R.directed) => Mirrored(R)

AtMostOnePerPair(g) ==
    \A e, f \in g.edges : (e.u = f.u /\ e.v = f.v) => e = f

\* C5: after any new_edge calls the edge collection holds at most one edge
\* per ordered pair, carrying the weight and label of the first insertion
\* for the pair; a new_edge on a pair that has an edge leaves the collection
\* unchanged and raises no error.
C5_FirstInsertionWins ==
    /\ [](G.alive => AtMostOnePerPair(G))
    /\ [][/\ (NewEdgeStep /\ ~AreNeighbors(G, last'.u, last'.v)
                 /\ AreNeighbors(G', last'.u, last'.v))
                => /\ GetEdge(G', last'.u, last'.v).weight = last'.weight
                   /\ GetEdge(G', last'.u, last'.v).label = last'.label
          /\ (NewEdgeStep /\ AreNeighbors(G, last'.u, last'.v))
                => (G'.edges = G.edges /\ last'.raised = NoError)]_vars

ZeroOne(M) == \A r \in DOMAIN M : \A c \in DOMAIN M[r] : M[r][c] \in {Num(0), Num(1)}

Symmetric(M) == \A r \in DOMAIN M : \A c \in DOMAIN M[r] : M[r][c] = M[c][r]

HasLoop(g, v) == \E e \in g.edges : e.u = v /\ e.v = v

UndirectedGraph == pc = "live" /\ G.alive /\ ~G.directed

\* C9 as stated: for every undirected graph made by the constructor and
\* new_edge, adjacency() is a 0/1 matrix in sorted vertex order that is
\* symmetric and has an all-zero diagonal.
C9_AdjacencyZeroDiagonal ==
    UndirectedGraph =>
        LET M == Adjacency(G)
        IN  /\ Len(M) = Cardinality(G.vertices)
            /\ ZeroOne(M)
            /\ Symmetric(M)
            /\ \A i \in DOMAIN M : M[i][i] = Num(0)

\* C9 as amended: for every undirected graph made by the constructor and
\* new_edge, adjacency() is a 0/1 matrix in sorted vertex order that is
\* symmetric, and its diagonal entry for a vertex is 0 unless the graph
\* stores an edge from that vertex to itself, in which case it is 1.
C9_AdjacencySymmetric ==
    UndirectedGraph =>
        LET M == Adjacency(G)
            vs == SortedSeq(G.vertices)
        IN  /\ Len(M) = Cardinality(G.vertices)
            /\ ZeroOne(M)
            /\ Symmetric(M)
            /\ \A i \in DOMAIN M :
                  M[i][i] = IF HasLoop(G, vs[i]) THEN Num(1) ELSE Num(0)

\* an undirected graph with a loop at 1 and an edge between 1 and 2, after
\* new_edge calls
C9_Witness ==
    /\ pc = "live" /\ ~G.directed /\ last.op = "new_edge"
    /\ G.vertices = {1, 2}
    /\ AreNeighbors(G, 1, 1) /\ AreNeighbors(G, 1, 2) /\ ~AreNeighbors(G, 2, 2)

\* C10: G + x for x that is not a graph returns a graph whose vertices are
\* G's together with x, whose edges are G's, in which x is isolated, and
\* which answers neighbors queries.
C10_AddVertexReturnsGraph ==
    [][AddVertexStep =>
          /\ last'.raised = NoError
          /\ R'.alive /\ ~R'.vnone
          /\ R'.vertices = G.vertices \cup {last'.u}
          /\ R'.edges = G.edges
          /\ ~NeighborsRaises(R')
          /\ (~(last'.u \in G.vertices) => Neighbors(R', last'.u) = {})]_vars
====
